---- MODULE Spec2Model ----
(***************************************************************************)
(* The Wildfire Risk Predictor page (app.py), a Streamlit script.          *)
(*                                                                         *)
(* A Streamlit script is executed top to bottom once for the page load and *)
(* once more for every user interaction (a widget edit, a button click).   *)
(* Widget values live in the session and survive from run to run; the      *)
(* script's own names (model, scaler, pca, data, prob, pred) belong to the *)
(* run.  One session is modelled, and its runs do not overlap: an          *)
(* interaction is handled when the previous run has ended.                 *)
(*                                                                         *)
(* Floats are fixed-point numbers, in hundredths (FP = 100): 250.0 is      *)
(* 25000, the probability 0.4 is 40.  NaN and the infinities are reserved  *)
(* codes outside the range of every finite value of the model.             *)
(***************************************************************************)
EXTENDS Integers, Sequences, FiniteSets, TLC

FP == 100

F(x) == x * FP

(* ----------------------------- floats ---------------------------------- *)

NaN == 1000000000

PosInf == 900000000

NegInf == -900000000

IsFinite(x) == x # NaN /\ x # PosInf /\ x # NegInf

Neg(x) ==
    IF x = NaN THEN NaN
    ELSE IF x = PosInf THEN NegInf
    ELSE IF x = NegInf THEN PosInf
    ELSE 0 - x

\* IEEE addition: NaN is absorbing, inf + -inf is NaN.
FAdd(a, b) ==
    IF a = NaN \/ b = NaN THEN NaN
    ELSE IF ~IsFinite(a) THEN (IF ~IsFinite(b) /\ b # a THEN NaN ELSE a)
    ELSE IF ~IsFinite(b) THEN b
    ELSE a + b

\* IEEE product of a finite coefficient c (in hundredths) and a value a.
FMul(c, a) ==
    IF a = NaN THEN NaN
    ELSE IF ~IsFinite(a)
         THEN (IF c = 0 THEN NaN ELSE IF c > 0 THEN a ELSE Neg(a))
    ELSE (c * a) \div FP

\* Division of a value by a finite positive scale (in hundredths).
FDiv(a, s) == IF IsFinite(a) THEN (a * FP) \div s ELSE a

AllFinite(x) == \A i \in DOMAIN x : IsFinite(x[i])

(* ------------------------ the 15 input fields -------------------------- *)

\* The column order of the DataFrame (lines 136-139).
Columns ==
    << "daynight_N", "lat", "lon", "fire_weather_index", "pressure_mean",
       "wind_direction_mean", "wind_direction_std", "solar_radiation_mean",
       "dewpoint_mean", "cloud_cover_mean", "evapotranspiration_total",
       "humidity_min", "temp_mean", "temp_range", "wind_speed_max" >>

NCols == Len(Columns)

Fields == {Columns[i] : i \in 1..NCols}

\* The order in which the values are listed in the DataFrame row (lines 132-135).
RowOrder ==
    << "daynight_N", "lat", "lon", "fire_weather_index", "pressure_mean",
       "wind_direction_mean", "wind_direction_std", "solar_radiation_mean",
       "dewpoint_mean", "cloud_cover_mean", "evapotranspiration_total",
       "humidity_min", "temp_mean", "temp_range", "wind_speed_max" >>

log_cols ==
    << "fire_weather_index", "wind_direction_std", "solar_radiation_mean",
       "evapotranspiration_total", "humidity_min", "temp_range", "wind_speed_max" >>

\* A faulty variant: humidity_min declared with the minimum of dewpoint_mean.
MinValueNegLog ==
    [ daynight_N |-> F(0), lat |-> F(-90), lon |-> F(-180),
      fire_weather_index |-> F(0), pressure_mean |-> F(500),
      wind_direction_mean |-> F(0), wind_direction_std |-> F(0),
      solar_radiation_mean |-> F(0), dewpoint_mean |-> F(-60),
      cloud_cover_mean |-> F(0), evapotranspiration_total |-> F(0),
      humidity_min |-> F(-60), temp_mean |-> F(-50), temp_range |-> F(0),
      wind_speed_max |-> F(0) ]

\* min_value of each widget (the selectbox offers 0 and 1).
MinValue ==
    [ daynight_N |-> F(0), lat |-> F(-90), lon |-> F(-180),
      fire_weather_index |-> F(0), pressure_mean |-> F(500),
      wind_direction_mean |-> F(0), wind_direction_std |-> F(0),
      solar_radiation_mean |-> F(0), dewpoint_mean |-> F(-60),
      cloud_cover_mean |-> F(0), evapotranspiration_total |-> F(0),
      humidity_min |-> F(0), temp_mean |-> F(-50), temp_range |-> F(0),
      wind_speed_max |-> F(0) ]

\* max_value of each widget.
MaxValue ==
    [ daynight_N |-> F(1), lat |-> F(90), lon |-> F(180),
      fire_weather_index |-> F(250), pressure_mean |-> F(1500),
      wind_direction_mean |-> F(359), wind_direction_std |-> F(359),
      solar_radiation_mean |-> F(500), dewpoint_mean |-> F(35),
      cloud_cover_mean |-> F(100), evapotranspiration_total |-> F(40),
      humidity_min |-> F(100), temp_mean |-> F(50), temp_range |-> F(100),
      wind_speed_max |-> F(200) ]

\* value= of each widget (the selectbox starts on its first option).
DefaultValue ==
    [ daynight_N |-> F(0), lat |-> F(0), lon |-> F(0),
      fire_weather_index |-> F(0), pressure_mean |-> F(1013),
      wind_direction_mean |-> F(0), wind_direction_std |-> F(0),
      solar_radiation_mean |-> F(0), dewpoint_mean |-> F(0),
      cloud_cover_mean |-> F(0), evapotranspiration_total |-> F(0),
      humidity_min |-> F(0), temp_mean |-> F(0), temp_range |-> F(0),
      wind_speed_max |-> F(0) ]

\* What the user may type into a field: the ends of its declared range and
\* the values just outside of them.
Typed(f) ==
    {MinValue[f] - F(1), MinValue[f], MaxValue[f], MaxValue[f] + F(1)}

\* A widget takes a value only within its declared range (the selectbox
\* only one of its options).
Accepts(f, v) ==
    IF f = "daynight_N" THEN v \in {F(0), F(1)}
    ELSE MinValue[f] <= v /\ v <= MaxValue[f]

(* ------------------------------ log1p ---------------------------------- *)

\* 100 * ln(1 + x/100), rounded, at the finite points the model visits.
Ln1p ==
    (F(0) :> 0) @@ (F(40) :> 371) @@ (F(100) :> 462) @@ (F(200) :> 530)
    @@ (F(250) :> 553) @@ (F(359) :> 589) @@ (F(500) :> 622)

\* np.log1p: NaN below -1 and -inf at -1, each with a warning only.
Log1p(x) ==
    IF x = NaN THEN NaN
    ELSE IF x < -FP THEN NaN
    ELSE IF x = -FP THEN NegInf
    ELSE Ln1p[x]

(* ---------------------------- artifacts -------------------------------- *)

Unset == [kind |-> "unset"]

\* scaler.pkl: a fitted standardizer, one mean and one scale per column.
ScalerFile ==
    [ kind |-> "scaler",
      mean_ |-> << 50, 0, 0, 100, 101300, 18000, 300, 400, 500, 5000, 100,
                   400, 1500, 200, 300 >>,
      scale_ |-> << 50, 4000, 9000, 150, 1000, 10000, 200, 200, 1000, 3000,
                    100, 100, 1000, 100, 100 >> ]

\* pca.pkl: a fitted linear projection onto two components.
PcaFile ==
    [ kind |-> "pca",
      mean_ |-> << 0, 0, 0, 0, 0, 0, 0, 0, 0, 0, 0, 0, 0, 0, 0 >>,
      components_ |->
        << << 5, 2, -1, 40, -3, 1, 10, 20, -10, -15, 25, -30, 20, 15, 35 >>,
           << 10, -5, 5, -10, 20, 2, 30, -20, 15, 25, -5, 10, -15, 20, -10 >> >> ]

\* model.pkl: a fitted binary classifier with a probability output.
ClfFile(w, b) == [ kind |-> "clf", coef_ |-> w, intercept_ |-> b ]

\* The classifier files of the general specification.
ClfFiles == { ClfFile(<< 20, -10 >>, 45) }

\* Classifiers whose probability output is the same for every input: one
\* for every twentieth, and for the hundredths on both sides of 0.4.
ConstClfFiles ==
    { ClfFile(<< 0, 0 >>, b) : b \in {5 * k : k \in 0..20} \cup {39, 41} }

RECURSIVE DotFrom(_, _, _)
DotFrom(c, x, i) ==
    IF i > Len(c) THEN 0 ELSE FAdd(FMul(c[i], x[i]), DotFrom(c, x, i + 1))

Dot(c, x) == DotFrom(c, x, 1)

\* scaler.transform: (x - mean) / scale, column by column.
ScalerTransform(s, x) ==
    [ i \in 1..Len(x) |-> FDiv(FAdd(x[i], Neg(s.mean_[i])), s.scale_[i]) ]

\* pca.transform: the centred vector times the components.
PcaTransform(p, x) ==
    LET centred == [ i \in 1..Len(x) |-> FAdd(x[i], Neg(p.mean_[i])) ]
    IN  [ j \in 1..Len(p.components_) |-> Dot(p.components_[j], centred) ]

Clip(v) == IF v < 0 THEN 0 ELSE IF v > FP THEN FP ELSE v

\* model.predict_proba on one row: the pair of class probabilities.
PredictProba(m, z) ==
    LET s  == FAdd(m.intercept_, Dot(m.coef_, z))
        p1 == IF s = NaN THEN NaN
              ELSE IF s = PosInf THEN FP
              ELSE IF s = NegInf THEN 0
              ELSE Clip(s)
    IN  << (IF p1 = NaN THEN NaN ELSE FP - p1), p1 >>

\* A vector with its NaNs and infinities taken as missing, as zeros.
Imputed(x) == [i \in DOMAIN x |-> IF IsFinite(x[i]) THEN x[i] ELSE 0]

\* What a call of an artifact can do with its argument: on a finite
\* argument it returns its value; the artifacts are opaque, so on an
\* argument with a NaN or an infinity it either raises or computes on.
Outcomes(x, value) ==
    { [raised |-> FALSE, value |-> value] }
        \cup (IF AllFinite(x) THEN {} ELSE { [raised |-> TRUE, value |-> << >>] })

(* ------------------------------ state ---------------------------------- *)

\* The most fields that differ from their default at once.
MaxEdited == 1

VARIABLES
    disk,       \* the three artifact files
    widgets,    \* the session's widget values, field name -> value
    pc,         \* where the current script run stands
    clicked,    \* what st.button("Predict") returns in the current run
    model, scaler, pca,     \* the run's loaded artifacts
    vals,       \* the 15 values the widgets returned in the current run
    data, prob, pred,       \* the names of the Predict block
    page,       \* the elements the current run has rendered, in order
    stages,     \* history: the stages of the Predict block run so far
    loaded,     \* history: the artifacts loaded since the process started
    ref         \* history: one earlier completed prediction request

vars ==
    << disk, widgets, pc, clicked, model, scaler, pca, vals, data, prob,
       pred, page, stages, loaded, ref >>

NoVals == << >>

NoData == << >>

NoNumber == -1

\* The history of requests: not kept, kept and still empty, or a request.
Off == [set |-> FALSE, kept |-> FALSE]

NoRef == [set |-> FALSE, kept |-> TRUE]

Element(kind, value) == [kind |-> kind, value |-> value]

Kinds(p) == [i \in DOMAIN p |-> p[i].kind]

Shows(kind) == \E i \in DOMAIN page : page[i].kind = kind

NumEdited(w) == Cardinality({f \in Fields : w[f] # DefaultValue[f]})

\* A run has ended: the script ran off its end, or an exception stopped it.
Waiting == pc \in {"done", "aborted"}

\* A run of the script starts in a new namespace and on an empty page.
StartRun(c) ==
    /\ pc' = "load_model"
    /\ clicked' = c
    /\ model' = Unset /\ scaler' = Unset /\ pca' = Unset
    /\ vals' = NoVals
    /\ data' = NoData /\ prob' = NoNumber /\ pred' = NoNumber
    /\ page' = << >>
    /\ stages' = << >>
    /\ UNCHANGED << disk, loaded, ref >>

\* A faulty variant: the exception is caught and shown, and the script goes on.
RaiseSwallowed ==
    /\ pc' = "inputs"
    /\ page' = Append(page, Element("exception", 0))

\* An uncaught exception ends the run; Streamlit renders it on the page.
Raise ==
    /\ pc' = "aborted"
    /\ page' = Append(page, Element("exception", 0))

(* ------------------------- user interactions --------------------------- *)

\* The browser opens (or reloads) the page: a new session, default widgets.
PageLoad ==
    /\ pc = "init" \/ Waiting
    /\ widgets' = DefaultValue
    /\ StartRun(FALSE)

\* The user commits a new value in one input field.
Edit(f, v) ==
    /\ Waiting
    /\ Shows("inputs")
    /\ Accepts(f, v)
    /\ v # widgets[f]
    /\ widgets' = [widgets EXCEPT ![f] = v]
    /\ NumEdited(widgets') <= MaxEdited
    /\ StartRun(FALSE)

\* The user presses the Predict button.
Click ==
    /\ Waiting
    /\ Shows("button")
    /\ UNCHANGED widgets
    /\ StartRun(TRUE)

(* ------------------------- the script, line by line -------------------- *)

\* Line 73: with open('model.pkl', 'rb') as f: model = pickle.load(f)
LoadModel ==
    /\ pc = "load_model"
    /\ \/ /\ model' = disk.model
          /\ loaded' = loaded \cup {"model"}
          /\ pc' = "load_scaler"
          /\ UNCHANGED page
       \/ /\ Raise
          /\ UNCHANGED << model, loaded >>
    /\ UNCHANGED << disk, widgets, clicked, scaler, pca, vals, data, prob,
                    pred, stages, ref >>

\* Line 74: with open('scaler.pkl', 'rb') as f: scaler = pickle.load(f)
LoadScaler ==
    /\ pc = "load_scaler"
    /\ \/ /\ scaler' = disk.scaler
          /\ loaded' = loaded \cup {"scaler"}
          /\ pc' = "load_pca"
          /\ UNCHANGED page
       \/ /\ Raise
          /\ UNCHANGED << scaler, loaded >>
    /\ UNCHANGED << disk, widgets, clicked, model, pca, vals, data, prob,
                    pred, stages, ref >>

\* Line 75: with open('pca.pkl', 'rb') as f: pca = pickle.load(f)
LoadPca ==
    /\ pc = "load_pca"
    /\ \/ /\ pca' = disk.pca
          /\ loaded' = loaded \cup {"pca"}
          /\ pc' = "inputs"
          /\ UNCHANGED page
       \/ /\ Raise
          /\ UNCHANGED << pca, loaded >>
    /\ UNCHANGED << disk, widgets, clicked, model, scaler, vals, data, prob,
                    pred, stages, ref >>

\* Lines 92-126: the selectbox and the 14 number inputs return their values.
CollectInputs ==
    /\ pc = "inputs"
    /\ vals' = widgets
    /\ page' = Append(page, Element("inputs", 0))
    /\ pc' = "button"
    /\ UNCHANGED << disk, widgets, clicked, model, scaler, pca, data, prob,
                    pred, stages, loaded, ref >>

\* A faulty variant: the Predict block no longer depends on the button.
ButtonAlways == TRUE

\* What line 131 tests: the button's value in this run.
ButtonValue == clicked

\* Line 131: if st.button("Predict"):
Button ==
    /\ pc = "button"
    /\ page' = Append(page, Element("button", 0))
    /\ pc' = IF ButtonValue THEN "build" ELSE "done"
    /\ UNCHANGED << disk, widgets, clicked, model, scaler, pca, vals, data,
                    prob, pred, stages, loaded, ref >>

\* Lines 132-139: the one-row DataFrame, the values in the column order.
FeatureRecord(v) == [i \in 1..NCols |-> v[RowOrder[i]]]

Build ==
    /\ pc = "build"
    /\ data' = FeatureRecord(vals)
    /\ stages' = Append(stages, "build")
    /\ pc' = "log1p"
    /\ UNCHANGED << disk, widgets, clicked, model, scaler, pca, vals, prob,
                    pred, page, loaded, ref >>

\* A faulty variant: wind_direction_mean listed in place of wind_direction_std.
Log1pColsWrongColumn(d) ==
    [i \in 1..Len(d) |->
        IF \E k \in 1..Len(log_cols) :
              (IF log_cols[k] = "wind_direction_std"
               THEN "wind_direction_mean" ELSE log_cols[k]) = Columns[i]
        THEN Log1p(d[i]) ELSE d[i]]

\* Line 144: data[log_cols] = np.log1p(data[log_cols])
Log1pCols(d) ==
    [i \in 1..Len(d) |->
        IF \E k \in 1..Len(log_cols) : log_cols[k] = Columns[i]
        THEN Log1p(d[i]) ELSE d[i]]

\* A faulty variant: line 145 is missing, the log-transformed frame goes to the reducer.
LogStepSkipsScale ==
    /\ pc = "log1p"
    /\ data' = Log1pCols(data)
    /\ stages' = Append(stages, "log1p")
    /\ pc' = "project"
    /\ UNCHANGED << disk, widgets, clicked, model, scaler, pca, vals, prob,
                    pred, page, loaded, ref >>

\* A faulty variant: the frame aliases the session's values, and the assignment of
\* line 144 writes through to them.
LogStepInPlace ==
    /\ pc = "log1p"
    /\ data' = Log1pCols(data)
    /\ widgets' = [f \in Fields |->
                     IF \E k \in 1..Len(log_cols) : log_cols[k] = f
                     THEN Log1p(widgets[f]) ELSE widgets[f]]
    /\ stages' = Append(stages, "log1p")
    /\ pc' = "scale"
    /\ UNCHANGED << disk, clicked, model, scaler, pca, vals, prob,
                    pred, page, loaded, ref >>

LogStep ==
    /\ pc = "log1p"
    /\ data' = Log1pCols(data)
    /\ stages' = Append(stages, "log1p")
    /\ pc' = "scale"
    /\ UNCHANGED << disk, widgets, clicked, model, scaler, pca, vals, prob,
                    pred, page, loaded, ref >>

\* Line 145: data = pd.DataFrame(scaler.transform(data))
ScaleStep ==
    /\ pc = "scale"
    /\ stages' = Append(stages, "scale")
    /\ \E r \in Outcomes(data, ScalerTransform(scaler, data)) :
          IF r.raised
          THEN Raise /\ UNCHANGED data
          ELSE data' = r.value /\ pc' = "project" /\ UNCHANGED page
    /\ UNCHANGED << disk, widgets, clicked, model, scaler, pca, vals, prob,
                    pred, loaded, ref >>

\* Line 146: data = pd.DataFrame(pca.transform(data))
ProjectStep ==
    /\ pc = "project"
    /\ stages' = Append(stages, "project")
    /\ \E r \in Outcomes(data, PcaTransform(pca, data)) :
          IF r.raised
          THEN Raise /\ UNCHANGED data
          ELSE data' = r.value /\ pc' = "predict" /\ UNCHANGED page
    /\ UNCHANGED << disk, widgets, clicked, model, scaler, pca, vals, prob,
                    pred, loaded, ref >>

\* Line 148: prob = model.predict_proba(data)[0, 1]
PredictStep ==
    /\ pc = "predict"
    /\ stages' = Append(stages, "predict")
    /\ \E r \in Outcomes(data, PredictProba(model, data))
                 \cup Outcomes(data, PredictProba(model, Imputed(data))) :
          IF r.raised
          THEN Raise /\ UNCHANGED prob
          ELSE prob' = r.value[2] /\ pc' = "decide" /\ UNCHANGED page
    /\ UNCHANGED << disk, widgets, clicked, model, scaler, pca, vals, data,
                    pred, loaded, ref >>

\* The literal of line 149, 0.4.
Threshold == 40

\* A faulty variant: the comparison is not strict.
DecideAtLeast(p) == IF p # NaN /\ p >= Threshold THEN 1 ELSE 0

\* Line 149: int(prob > 0.4); a comparison with NaN is False.
Decide(p) == IF p # NaN /\ p > Threshold THEN 1 ELSE 0

DecideStep ==
    /\ pc = "decide"
    /\ pred' = Decide(prob)
    /\ stages' = Append(stages, "decide")
    /\ pc' = "render_prob"
    /\ UNCHANGED << disk, widgets, clicked, model, scaler, pca, vals, data,
                    prob, page, loaded, ref >>

\* Line 176: {prob*100:.2f}%, in hundredths of a percent.
Percent(p) == IF p = NaN THEN NaN ELSE p * 100

\* Lines 155-181: the heading and the probability panel.
RenderProb ==
    /\ pc = "render_prob"
    /\ page' = page \o << Element("results_heading", 0),
                          Element("prob_panel", Percent(prob)) >>
    /\ stages' = Append(stages, "render")
    /\ pc' = "render_msg"
    /\ UNCHANGED << disk, widgets, clicked, model, scaler, pca, vals, data,
                    prob, pred, loaded, ref >>

\* A faulty variant: the branches of line 183 exchanged.
MessageSwapped(label) ==
    IF label = 0
    THEN << Element("msg_likely", 0), Element("close_div", 0) >>
    ELSE << Element("msg_unlikely", 0) >>

\* Lines 183-216: the message of the branch taken.
Message(label) ==
    IF label = 0
    THEN << Element("msg_unlikely", 0) >>
    ELSE << Element("msg_likely", 0), Element("close_div", 0) >>

\* The request as the history keeps it.
Request ==
    [ set |-> TRUE, kept |-> TRUE, inputs |-> widgets, artifacts |-> << model, scaler, pca >>,
      data |-> data, prob |-> prob, pred |-> pred ]

RenderMsg ==
    /\ pc = "render_msg"
    /\ page' = page \o Message(pred)
    /\ pc' = "done"
    /\ ref' \in (IF ref = NoRef THEN {NoRef, Request} ELSE {ref})
    /\ UNCHANGED << disk, widgets, clicked, model, scaler, pca, vals, data,
                    prob, pred, stages, loaded >>

(* -------------------------- specifications ----------------------------- *)

InitRun ==
    /\ pc = "init"
    /\ widgets = DefaultValue
    /\ clicked = FALSE
    /\ model = Unset /\ scaler = Unset /\ pca = Unset
    /\ vals = NoVals
    /\ data = NoData /\ prob = NoNumber /\ pred = NoNumber
    /\ page = << >>
    /\ stages = << >>
    /\ loaded = {}

\* The process has started and no browser has opened the page yet.
Init ==
    /\ disk \in [model : ClfFiles, scaler : {ScalerFile}, pca : {PcaFile}]
    /\ InitRun
    /\ ref = Off

Next ==
    \/ PageLoad
    \/ \E f \in Fields : \E v \in Typed(f) : Edit(f, v)
    \/ Click
    \/ LoadModel
    \/ LoadScaler
    \/ LoadPca
    \/ CollectInputs
    \/ Button
    \/ Build
    \/ LogStep
    \/ ScaleStep
    \/ ProjectStep
    \/ PredictStep
    \/ DecideStep
    \/ RenderProb
    \/ RenderMsg

Spec == Init /\ [][Next]_vars

\* The same process, with one earlier request kept for comparison.
InitHistory ==
    /\ disk \in [model : ClfFiles, scaler : {ScalerFile}, pca : {PcaFile}]
    /\ InitRun
    /\ ref = NoRef

SpecHistory == InitHistory /\ [][Next]_vars

\* The same process with a classifier of any constant probability output.
InitRule ==
    /\ disk \in [model : ConstClfFiles, scaler : {ScalerFile}, pca : {PcaFile}]
    /\ InitRun
    /\ ref = Off

SpecRule == InitRule /\ [][Next]_vars

\* Feature values no widget lets through: one of the seven log1p columns
\* below -1 or at -1, the other columns at their defaults.
PipeInputs ==
    { [DefaultValue EXCEPT ![log_cols[k]] = v] :
        k \in 1..Len(log_cols), v \in {F(-2), F(-1)} }

\* The Predict block entered with such values: the pipeline itself checks
\* no range (lines 132-149).
InitPipe ==
    /\ disk \in [model : ClfFiles, scaler : {ScalerFile}, pca : {PcaFile}]
    /\ widgets \in PipeInputs
    /\ vals = widgets
    /\ pc = "build"
    /\ clicked = TRUE
    /\ model = disk.model /\ scaler = disk.scaler /\ pca = disk.pca
    /\ data = NoData /\ prob = NoNumber /\ pred = NoNumber
    /\ page = << Element("inputs", 0), Element("button", 0) >>
    /\ stages = << >>
    /\ loaded = {"model", "scaler", "pca"}
    /\ ref = Off

SpecPipe == InitPipe /\ [][Next]_vars

(* ------------------------------ claims --------------------------------- *)

IsPrefix(a, b) == Len(a) <= Len(b) /\ \A i \in 1..Len(a) : a[i] = b[i]

PipelineOrder ==
    << "build", "log1p", "scale", "project", "predict", "decide", "render" >>

SevenLogFields ==
    { "fire_weather_index", "wind_direction_std", "solar_radiation_mean",
      "evapotranspiration_total", "humidity_min", "temp_range",
      "wind_speed_max" }

EightOtherFields ==
    { "daynight_N", "lat", "lon", "pressure_mean", "wind_direction_mean",
      "dewpoint_mean", "cloud_cover_mean", "temp_mean" }

FixedOrder ==
    << "daynight_N", "lat", "lon", "fire_weather_index", "pressure_mean",
       "wind_direction_mean", "wind_direction_std", "solar_radiation_mean",
       "dewpoint_mean", "cloud_cover_mean", "evapotranspiration_total",
       "humidity_min", "temp_mean", "temp_range", "wind_speed_max" >>

AfterLog1p ==
    {"scale", "project", "predict", "decide", "render_prob", "render_msg", "done"}

ResultKinds == {"results_heading", "prob_panel", "msg_unlikely", "msg_likely"}

\* C1: once the label is set, the probability p is in [0,1] and the label
\* is 1 exactly when p > 0.4 (strictly), 0 otherwise; so p = 0.4 gives 0,
\* p = 0.41 gives 1, p = 0 gives 0 and p = 1 gives 1.
C1_DecisionRule ==
    pred # NoNumber =>
        /\ prob \in 0..FP
        /\ pred \in {0, 1}
        /\ pred = 1 <=> 10 * prob > 4 * FP
        /\ prob = 0 => pred = 0
        /\ prob = FP => pred = 1

\* The boundary: a request whose probability is exactly 0.4 got label 0.
C1_Witness == pc = "done" /\ 10 * prob = 4 * FP /\ pred = 0

\* C2: within a request the stages run in the one order build, log1p,
\* scale, project, predict, decide, render, each once and on the output of
\* the one before; a request that ends has run them all, and the classifier
\* is called only on the log-transformed, scaled and projected vector.
C2_StageOrder ==
    /\ IsPrefix(stages, PipelineOrder)
    /\ (pc = "done" /\ clicked) => stages = PipelineOrder
    /\ pc = "log1p" => data = FeatureRecord(vals)
    /\ pc = "scale" => data = Log1pCols(FeatureRecord(vals))
    /\ pc = "project" =>
          data = ScalerTransform(scaler, Log1pCols(FeatureRecord(vals)))
    /\ pc = "predict" =>
          /\ stages = << "build", "log1p", "scale", "project" >>
          /\ data = PcaTransform(pca,
                      ScalerTransform(scaler, Log1pCols(FeatureRecord(vals))))
    /\ prob # NoNumber =>
          prob = PredictProba(model, PcaTransform(pca,
                   ScalerTransform(scaler, Log1pCols(FeatureRecord(vals)))))[2]
    /\ pc \in {"render_prob", "render_msg", "done"} /\ clicked =>
          pred = Decide(prob)

\* A request on edited inputs has run all seven stages to its end.
C2_Witness ==
    /\ pc = "done" /\ clicked
    /\ stages = PipelineOrder
    /\ widgets # DefaultValue

\* C3: when the log1p step hands the frame to the scaler, it holds 15
\* values in the fixed field order, log1p(x) in the seven designated fields
\* and the value as entered in the eight others.
C3_Log1pFrame ==
    pc = "scale" =>
        /\ Len(data) = 15
        /\ \A i \in 1..15 :
              /\ FixedOrder[i] \in SevenLogFields =>
                    data[i] = Log1p(vals[FixedOrder[i]])
              /\ FixedOrder[i] \in EightOtherFields =>
                    data[i] = vals[FixedOrder[i]]

\* The frame after log1p of a request with wind_direction_std at 359,
\* which log1p changed.
C3_Witness ==
    /\ pc = "scale"
    /\ vals["wind_direction_std"] = F(359)
    /\ data[7] # vals["wind_direction_std"]

\* C4: an artifact that has been loaded once in the process is never loaded
\* (assigned) again.
C4_LoadedOnce ==
    [][ /\ "model" \in loaded => (model' = model \/ model' = Unset)
        /\ "scaler" \in loaded => (scaler' = scaler \/ scaler' = Unset)
        /\ "pca" \in loaded => (pca' = pca \/ pca' = Unset) ]_vars

\* C5: a run in which one of the three loads has failed has stopped there:
\* it has collected no input, offers no inputs and no Predict button, and
\* has run no stage of the Predict block, computed and rendered no result.
C5_LoadFailureFatal ==
    (/\ pc \notin {"init", "load_model", "load_scaler", "load_pca"}
     /\ (model = Unset \/ scaler = Unset \/ pca = Unset)) =>
        /\ pc = "aborted"
        /\ vals = NoVals
        /\ Kinds(page) = << "exception" >>
        /\ stages = << >>
        /\ data = NoData /\ prob = NoNumber /\ pred = NoNumber

\* The run of a click on Predict in which the classifier loaded and a later
\* load failed.
C5_Witness ==
    /\ pc = "aborted" /\ clicked
    /\ model # Unset /\ pca = Unset

\* C6: the session's value of each of the seven log-transformed fields is
\* never below 0, and log1p is applied only to values that are at least 0
\* (so at least -1) and gives a finite frame.
C6_Log1pDomain ==
    /\ \A f \in SevenLogFields : widgets[f] >= 0
    /\ pc = "log1p" =>
          \A i \in 1..15 :
              FixedOrder[i] \in SevenLogFields =>
                  data[i] >= 0 /\ data[i] >= -FP
    /\ pc = "scale" => AllFinite(data)

\* log1p has been applied to a request with the seven fields at their
\* declared minimum and a field that may be negative at its minimum.
C6_Witness ==
    /\ pc = "scale"
    /\ \A f \in SevenLogFields : vals[f] = MinValue[f]
    /\ vals["dewpoint_mean"] = F(-60)

C8_Idempotent ==
    /\ vals # NoVals => vals = widgets
    /\ (/\ pc = "done" /\ clicked
        /\ ref.set
        /\ ref.inputs = widgets
        /\ ref.artifacts = << model, scaler, pca >>) =>
            /\ ref.data = data
            /\ ref.prob = prob
            /\ ref.pred = pred

\* A request on edited inputs has ended after an earlier, remembered
\* request on the same inputs, with the same result.
C8_Witness ==
    /\ pc = "done" /\ clicked
    /\ ref.set
    /\ ref.inputs = widgets
    /\ widgets # DefaultValue
    /\ ref.prob = prob

C10_MessageAgrees ==
    /\ ~(Shows("msg_unlikely") /\ Shows("msg_likely"))
    /\ (pc = "done" /\ clicked) =>
          /\ page[4] = Element("prob_panel", prob * 100)
          /\ \A i \in DOMAIN page :
                page[i].kind \in {"msg_unlikely", "msg_likely"} => i = 5
          /\ 10 * prob <= 4 * FP => page[5].kind = "msg_unlikely"
          /\ 10 * prob > 4 * FP => page[5].kind = "msg_likely"

\* A request above the threshold has ended with the 'likely' message.
C10_Witness ==
    /\ pc = "done" /\ clicked
    /\ 10 * prob > 4 * FP
    /\ Shows("msg_likely")

====
